---- MODULE Spec2Model ----
(***************************************************************************)
(* sh-expand, live-interpreter backend (sh_expand/bash_expand.py).         *)
(*                                                                         *)
(* A BashExpansionState drives one interactive bash through pexpect.  The  *)
(* tree compiler walks a shasta AST, classifies every word with            *)
(* should_expand_var and resolves the words that need it by probing the    *)
(* interpreter.  The model keeps the session object, the processes and     *)
(* temporary files it owns, and the compiler as operators that thread the  *)
(* session through the walk exactly as the Python code does.               *)
(***************************************************************************)
EXTENDS Integers, Sequences, FiniteSets, TLC

(***************************************************************************)
(* Bounds of the model.                                                    *)
(***************************************************************************)
MaxLen == 4          \* longest enumerated argument word (characters)
MaxSpawn == 3        \* interpreter processes spawned in one behaviour
MaxFaultAt == 4      \* latest run_command call at which the interpreter misbehaves
MaxDepth == 1        \* wrapper nodes above a leaf in an enumerated tree

(***************************************************************************)
(* Characters.  A character is a one-character string; DEL stands for      *)
(* 0x7f, NUL for the zero byte; the backtick and the two quotes are named  *)
(* as well.  A str is a sequence of characters.                            *)
(***************************************************************************)
DEL == "DEL"
NUL == "NUL"
NL == "NL"           \* the newline
BQ == "BQ"           \* the backtick
DQ == "DQ"           \* the double quote
SQ == "SQ"           \* the single quote

\* bash_expand.py:97
globbing_chars == {"*", "?", "!"}

\* bash_expand.py:98
dangerous_tildes == {<<"~", "+">>, <<"~", "-">>}

\* bash_expand.py:101
need_to_expand_chars == {"{", "$", "~", "[", DQ, SQ}

\* The characters the enumerated words are drawn from: one or more of every
\* class the scanner tells apart, and a plain letter.
Alphabet == {"a", "$", "(", "=", BQ, DEL, "*", "~", "+"}

(***************************************************************************)
(* Argument characters (shasta.ast_node).  CArgChar(c) is a raw source     *)
(* character, QArgChar(chars) a quoted literal produced by the oracle.     *)
(***************************************************************************)
CArgChar(c) == [k |-> "C", c |-> <<c>>]

QArgChar(chars) == [k |-> "Q", c |-> chars]

\* ArgChar.format(): a raw character prints as itself, a quoted literal
\* between double quotes.
format(argchar) ==
    IF argchar.k = "C" THEN argchar.c ELSE <<DQ>> \o argchar.c \o <<DQ>>

RECURSIVE Concat(_)
Concat(seqs) == IF seqs = <<>> THEN <<>> ELSE Head(seqs) \o Concat(Tail(seqs))

\* bash_expand.py:170  "".join(c.format() for c in data)
join_argchars_as_str(data) == Concat([i \in 1..Len(data) |-> format(data[i])])

\* bash_expand.py:162  QArgChar([CArgChar(ord(c)) for c in data])
str_to_quoted_arg_char(data) == QArgChar(data)

\* bash_expand.py:166  [CArgChar(ord(c)) for c in data]
str_to_arg_chars(data) == [i \in 1..Len(data) |-> CArgChar(data[i])]

\* A source word as the parser hands it over: list[CArgChar].
Word(s) == str_to_arg_chars(s)

\* word[:n]
Prefix(s, n) == SubSeq(s, 1, IF Len(s) < n THEN Len(s) ELSE n)

\* chars[-2:]
Last2(s) == SubSeq(s, IF Len(s) < 2 THEN 1 ELSE Len(s) - 1, Len(s))

(***************************************************************************)
(* The scanner, should_expand_var.  A verdict is [exc, expand]: exc is     *)
(* "none" when the scan returns, else the kind of failure raised.          *)
(***************************************************************************)
Verdict(exc, expand) == [exc |-> exc, expand |-> expand]

\* A variant of the loop body that rejects an = only right after a $.  C24
\* tells the two apart.
ScanChar_right_after(char, chars, seen_dollar_sign) ==
    LET pair == Last2(chars)
    IN  IF char = DEL THEN "StuckExpansion"
        ELSE IF char \in globbing_chars THEN "Unimplemented"
        ELSE IF char = BQ THEN "ImpureExpansion"
        ELSE IF pair = <<"$", "=">> THEN "ImpureExpansion"
        ELSE IF pair \in dangerous_tildes THEN "ImpureExpansion"
        ELSE IF pair \in {<<"<", "(">>, <<">", "(">>, <<"$", "(">>} THEN "ImpureExpansion"
        ELSE IF char = "(" THEN "ImpureExpansion"
        ELSE "none"

\* One iteration of the loop at bash_expand.py:114-138: the failure raised for
\* `char`, or "none".  chars is the list of characters read so far, `char`
\* included.
ScanChar(char, chars, seen_dollar_sign) ==
    LET pair == Last2(chars)
    IN  IF char = DEL THEN "StuckExpansion"
        ELSE IF char \in globbing_chars THEN "Unimplemented"
        ELSE IF char = BQ THEN "ImpureExpansion"
        ELSE IF seen_dollar_sign /\ char = "=" THEN "ImpureExpansion"
        ELSE IF pair \in dangerous_tildes THEN "ImpureExpansion"
        ELSE IF pair \in {<<"<", "(">>, <<">", "(">>, <<"$", "(">>} THEN "ImpureExpansion"
        ELSE IF char = "(" THEN "ImpureExpansion"
        ELSE "none"

RECURSIVE ScanFrom(_, _, _, _, _)

\* A variant of the loop that looks for a DEL in the rest of the word before
\* it looks at the next character.  C16 tells the two apart.
ScanFrom_del_first(word, i, expand, chars, seen_dollar_sign) ==
    IF i > Len(word) THEN Verdict("none", expand)
    ELSE IF \E k \in i..Len(word) : word[k].c[1] = DEL THEN Verdict("StuckExpansion", FALSE)
    ELSE LET char == word[i].c[1]
             e == ScanChar(char, Append(chars, char), seen_dollar_sign)
         IN  IF e # "none" THEN Verdict(e, FALSE)
             ELSE ScanFrom(word, i + 1,
                           expand \/ char \in need_to_expand_chars,
                           Append(chars, char),
                           seen_dollar_sign \/ char = "$")

\* The loop at bash_expand.py:114-140 from character i on, with the locals
\* expand, chars and seen_dollar_sign as they stand before it.
ScanFrom(word, i, expand, chars, seen_dollar_sign) ==
    IF i > Len(word) THEN Verdict("none", expand)
    ELSE LET char == word[i].c[1]
             e == ScanChar(char, Append(chars, char), seen_dollar_sign)
         IN  IF e # "none" THEN Verdict(e, FALSE)
             ELSE ScanFrom(word, i + 1,
                           expand \/ char \in need_to_expand_chars,
                           Append(chars, char),
                           seen_dollar_sign \/ char = "$")

\* A variant of should_expand_var without the arithmetic short cut.  C17
\* tells the two apart.
should_expand_var_scan(word) == ScanFrom(word, 1, FALSE, <<>>, FALSE)

\* bash_expand.py:104-140
should_expand_var(word) ==
    LET start == join_argchars_as_str(Prefix(word, 3))
    IN  IF start = <<"$", "(", "(">> /\ ~(\E i \in 1..Len(word) : word[i].c[1] = "=")
        THEN Verdict("none", TRUE)
        ELSE ScanFrom(word, 1, FALSE, <<>>, FALSE)

(***************************************************************************)
(* The interpreter at the other end of the pseudo-terminal.  One process   *)
(* is a stack of shells, the outer one first: BASH_COMMAND pushes a nested *)
(* bash that inherits the variables (the interpreter runs with -a, so all  *)
(* are exported), exit pops the innermost one, and the process is gone     *)
(* when the stack is empty.  An environment holds the integer variable x;  *)
(* s is bound to "a b", every other name is unset.                         *)
(***************************************************************************)
Letters == {"a", "b", "h", "e", "l", "o", "s", "x"}

DigitChar == <<"0", "1", "2", "3", "4", "5", "6", "7", "8", "9">>

RECURSIVE Dec(_)
Dec(n) == IF n < 10 THEN <<DigitChar[n + 1]>> ELSE Dec(n \div 10) \o <<DigitChar[(n % 10) + 1]>>

\* The environment of a newly spawned interpreter, and the variables the
\* caller's dump file binds when it is sourced.
InitEnv == [x |-> 0]

FileEnv == [x |-> 1]

SPLIT == "SPLIT"     \* a field boundary produced by word splitting

\* The value of $name, as characters; unquoted blanks are field boundaries.
VarValue(name, env, quoted) ==
    IF name = "x" THEN Dec(env.x)
    ELSE IF name = "s" THEN <<"a", (IF quoted THEN " " ELSE SPLIT), "b">>
    ELSE <<>>

\* Parameter and tilde expansion with quote removal, left to right; mode is
\* "" outside quotes, DQ or SQ inside.
RECURSIVE bash_expansion(_, _, _, _)
bash_expansion(s, i, mode, env) ==
    IF i > Len(s) THEN <<>>
    ELSE IF s[i] \in {DQ, SQ} /\ mode \in {"", s[i]}
         THEN bash_expansion(s, i + 1, IF mode = "" THEN s[i] ELSE "", env)
    ELSE IF s[i] = "$" /\ mode # SQ /\ i < Len(s) /\ s[i + 1] \in Letters
         THEN VarValue(s[i + 1], env, mode = DQ) \o bash_expansion(s, i + 2, mode, env)
    ELSE IF s[i] = "~" /\ i = 1 /\ mode = ""
         THEN <<"/", "h">> \o bash_expansion(s, i + 1, mode, env)
    ELSE <<s[i]>> \o bash_expansion(s, i + 1, mode, env)

\* str.split(sep): the pieces of s between occurrences of sep.
RECURSIVE SplitOn(_, _)
SplitOn(s, sep) ==
    IF \A i \in 1..Len(s) : s[i] # sep THEN <<s>>
    ELSE LET k == CHOOSE i \in 1..Len(s) : s[i] = sep /\ \A j \in 1..(i - 1) : s[j] # sep
         IN  <<SubSeq(s, 1, k - 1)>> \o SplitOn(SubSeq(s, k + 1, Len(s)), sep)

Count(s, c) == Cardinality({i \in 1..Len(s) : s[i] = c})

IsArith(s) == Len(s) >= 3 /\ SubSeq(s, 1, 3) = <<"$", "(", "(">>

ArithBody(s) == SubSeq(s, 4, Len(s) - 2)

\* The interpreter reads a whole command before running it: with an open
\* quote, backtick or arithmetic it prompts for a continuation line and never
\* prints the sentinel.
Incomplete(s) ==
    \/ Count(s, DQ) % 2 = 1
    \/ Count(s, SQ) % 2 = 1
    \/ Count(s, BQ) % 2 = 1
    \/ IsArith(s) /\ (Len(s) < 5 \/ SubSeq(s, Len(s) - 1, Len(s)) # <<")", ")">>)

\* The fields word s expands to in env, and the environment afterwards.
\* $((x++)) yields x and increments it; other arithmetic reads only.
bash_fields(s, env) ==
    LET Fields(pieces) ==
            IF Count(s, DQ) + Count(s, SQ) > 0 THEN pieces
            ELSE SelectSeq(pieces, LAMBDA f : f # <<>>)
    IN  IF IsArith(s)
        THEN IF ArithBody(s) = <<"x", "+", "+">>
                 THEN [fields |-> <<Dec(env.x)>>, env |-> [env EXCEPT !.x = @ + 1]]
             ELSE IF ArithBody(s) = <<"x">>
                 THEN [fields |-> <<Dec(env.x)>>, env |-> env]
             ELSE [fields |-> <<<<"0">>>>, env |-> env]
        ELSE [fields |-> Fields(SplitOn(bash_expansion(s, 1, "", env), SPLIT)),
              env |-> env]

RECURSIVE JoinWith(_, _)
JoinWith(fields, sep) ==
    IF fields = <<>> THEN <<>>
    ELSE IF Len(fields) = 1 THEN fields[1]
    ELSE fields[1] \o <<sep>> \o JoinWith(Tail(fields), sep)

\* printf '%s\0' ARGS: the format is printed once per argument, and once with
\* an empty argument when there is none.
printf_out(fields) ==
    IF fields = <<>> THEN <<NUL>>
    ELSE Concat([i \in 1..Len(fields) |-> fields[i] \o <<NUL>>])

\* echo -n ARGS: the arguments separated by blanks, no newline.
echo_out(fields) == JoinWith(fields, " ")

(***************************************************************************)
(* Commands written to the interpreter.  A command is [cmd, word]: the     *)
(* text of the line is fixed by cmd except for the word it carries.        *)
(***************************************************************************)
\* bash_expand.py:53-62  "/usr/bin/env bash --rcfile ... --noediting -i -a"
STR_COMMAND == [cmd |-> "bash", word |-> <<>>]

\* bash_expand.py:238
EXIT_COMMAND == [cmd |-> "exit", word |-> <<>>]

\* bash_expand.py:154-155  source '{file}' 2> /dev/null
source_file_cmd(file) == [cmd |-> "source", word |-> file]

\* bash_expand.py:245  printf '%s\0' {word}
printf_cmd(word) == [cmd |-> "printf", word |-> word]

\* bash_expand.py:258  echo -n {word}
echo_cmd(word) == [cmd |-> "echo", word |-> word]

\* What one command line does to the stack of shells: [hang, out, shells].
\* hang: the sentinel is not printed.
bash_exec(command, shells) ==
    LET n == Len(shells)
        Probe(r) ==
            [hang |-> FALSE,
             out |-> IF command.cmd = "printf" THEN printf_out(r.fields)
                     ELSE echo_out(r.fields),
             shells |-> [shells EXCEPT ![n] = r.env]]
    IN  CASE command.cmd = "bash" ->
                [hang |-> FALSE, out |-> <<>>, shells |-> Append(shells, shells[n])]
          [] command.cmd = "exit" ->
                [hang |-> FALSE, out |-> <<>>, shells |-> SubSeq(shells, 1, n - 1)]
          [] command.cmd = "source" ->
                [hang |-> FALSE, out |-> <<>>, shells |-> [shells EXCEPT ![n] = FileEnv]]
          [] OTHER ->
                IF Incomplete(command.word)
                THEN [hang |-> TRUE, out |-> <<>>, shells |-> shells]
                ELSE Probe(bash_fields(command.word, shells[n]))

(***************************************************************************)
(* The session as the compiler sees it (the exp_state argument):           *)
(*   is_open  the flag of BashExpansionState                               *)
(*   shells   the stack of shells of the process behind bash_mirror        *)
(*   sent     the command lines written so far, in order                   *)
(*   fault    how the interpreter misbehaves: at the fault.at-th line      *)
(*            written (0: never) it is "lost" (the line has no effect and  *)
(*            no sentinel follows in time), "late" (the line takes effect  *)
(*            but the sentinel comes too late) or "nostart" (a nested bash *)
(*            cannot be started: the outer shell reports it and prompts)   *)
(*   fired    whether the fault has happened                               *)
(*   stream   the answers of the interpreter that no expect_exact has      *)
(*            consumed yet, each the text before one sentinel              *)
(*   raised   one [exc, at] per raise statement the compiler executed: the  *)
(*            failure and the number of lines written before it            *)
(*   scopes   one [before, after] per finished subshell() scope: the depth *)
(*            of the stack of shells when the scope was entered and left   *)
(* Every operation returns [exc, val, st]: exc is "none" when it returns   *)
(* val, else the exception that leaves it; st is the session afterwards.   *)
(***************************************************************************)
R(exc, val, st) == [exc |-> exc, val |-> val, st |-> st]

\* A raise statement of the compiler: the failure, and where in the lines
\* written it was raised, are noted in the session.
Raise(exc, val, st) ==
    R(exc, val, [st EXCEPT !.raised = Append(@, [exc |-> exc, at |-> Len(st.sent)])])

NoFault == [at |-> 0, kind |-> "lost"]

Faults == {NoFault} \cup [at : 1..MaxFaultAt, kind : {"lost", "late", "nostart"}]

\* bash_expand.py:264-275.  sendline writes the command and a newline, so a
\* command that holds newlines is several lines to the interpreter: the
\* first is the command proper, every further one is run as a command of its
\* own and answered with a sentinel of its own (an empty line with the
\* sentinel alone).  expect_exact returns the text up to the first sentinel
\* in the stream, whichever line it answers.
run_command(st, bash_command) ==
    LET st1 == [st EXCEPT !.sent = Append(@, bash_command)]
        now == Len(st.sent) + 1 = st.fault.at
        Further(lines) ==
            [i \in 1..(Len(lines) - 1) |-> IF lines[i + 1] = <<>> THEN <<>> ELSE <<"?">>]
        Deliver(st2, answers) ==
            IF st2.stream \o answers = <<>> THEN R("TIMEOUT", <<>>, st2)
            ELSE R("none", Head(st2.stream \o answers),
                   [st2 EXCEPT !.stream = Tail(st2.stream \o answers)])
        Outcome(x, further) ==
            IF now /\ st.fault.kind = "lost"
                THEN Deliver([st1 EXCEPT !.fired = TRUE], <<>>)
            ELSE IF now /\ st.fault.kind = "late" /\ st.stream = <<>>
                THEN R("TIMEOUT", <<>>, [st1 EXCEPT !.fired = TRUE, !.shells = x.shells,
                                                    !.stream = <<x.out>> \o further])
            ELSE IF now /\ st.fault.kind = "nostart" /\ bash_command.cmd = "bash"
                THEN Deliver([st1 EXCEPT !.fired = TRUE], <<<<"e", "r", "r">>>>)
            ELSE IF x.hang
                THEN Deliver(st1, <<>>)
            ELSE IF x.shells = <<>>
                THEN IF st.stream = <<>>
                     THEN R("EOF", <<>>, [st1 EXCEPT !.shells = x.shells])
                     ELSE Deliver([st1 EXCEPT !.shells = x.shells], <<>>)
            ELSE Deliver([st1 EXCEPT !.shells = x.shells], <<x.out>> \o further)
        Lines(lines) ==
            Outcome(bash_exec([bash_command EXCEPT !.word = lines[1]], st.shells),
                    Further(lines))
    IN  IF ~st.is_open THEN R("AssertionError", <<>>, st)
        ELSE IF st.shells = <<>> THEN R("EOF", <<>>, st1)
        ELSE Lines(SplitOn(bash_command.word, NL))

\* output.split("\0")[:-1]
SplitOutput(output) ==
    LET AllButLast(pieces) == SubSeq(pieces, 1, Len(pieces) - 1)
    IN  AllButLast(SplitOn(output, NUL))

\* bash_expand.py:240-252
expand_word(st, word) ==
    LET Split(o) == IF o.exc # "none" THEN o ELSE R("none", SplitOutput(o.val), o.st)
    IN  IF ~st.is_open THEN R("AssertionError", <<>>, st)
        ELSE Split(run_command(st, printf_cmd(word)))

\* bash_expand.py:254-262
expand_no_split(st, word) ==
    IF ~st.is_open THEN R("AssertionError", <<>>, st)
    ELSE run_command(st, echo_cmd(word))

\* bash_expand.py:232-238: the part of subshell() before the yield.
subshell_enter(st) == run_command(st, STR_COMMAND)

\* bash_expand.py:232-238: the finally clause of subshell().  b is the outcome
\* of what ran inside the try (the entry command and the body of the with
\* statement), before the depth of the stack when the scope was entered.  An
\* exception raised by the finally clause replaces the one in flight.
subshell_exit(b, before) ==
    LET Leave(x) ==
            R(IF x.exc # "none" THEN x.exc ELSE b.exc, b.val,
              [x.st EXCEPT !.scopes =
                  Append(@, [before |-> before, after |-> Len(x.st.shells)])])
    IN  Leave(run_command(b.st, EXIT_COMMAND))

(***************************************************************************)
(* The tree.  A node is a record with the fields of its shasta class that  *)
(* the compiler reads; NodeName tags the kind.  The compiler mutates nodes *)
(* in place, so every compile_* operator returns the node as it stands     *)
(* when the call ends, also when the call ends with an exception.  In the  *)
(* operators below a local operator stands for the rest of the function    *)
(* after a call, applied to what the call returned.                        *)
(***************************************************************************)
NoneNode == [NodeName |-> "None"]

\* An optional word (CondNode.op, .left, .right): None, or a list.
None == [some |-> FALSE, v |-> <<>>]

Some(v) == [some |-> TRUE, v |-> v]

\* Python truth of an optional list: None and the empty list are false.
Truthy(o) == o.some /\ o.v # <<>>

\* bash_expand.py:530  [[str_to_quoted_arg_char(ea)] for ea in expanded]
QuotedNodes(expanded) ==
    [i \in 1..Len(expanded) |-> <<str_to_quoted_arg_char(expanded[i])>>]

\* A variant of compile_command_argument that ignores what the scanner says
\* about expansion: every word the scanner does not reject is sent to the
\* oracle.  C2 tells the two apart.
compile_command_argument_always(argument, st, split) ==
    LET Split(e) ==
            IF e.exc # "none" THEN R(e.exc, <<>>, e.st)
            ELSE R("none", QuotedNodes(e.val), e.st)
        NoSplit(e) ==
            IF e.exc # "none" THEN R(e.exc, <<>>, e.st)
            ELSE R("none", QuotedNodes(<<e.val>>), e.st)
        Scanned(exp_result) ==
            IF exp_result.exc # "none" THEN Raise(exp_result.exc, <<>>, st)
            ELSE IF split
                THEN Split(expand_word(st, join_argchars_as_str(argument)))
            ELSE NoSplit(expand_no_split(st, join_argchars_as_str(argument)))
    IN  Scanned(should_expand_var(argument))

\* bash_expand.py:519-531
compile_command_argument(argument, st, split) ==
    LET Split(e) ==
            IF e.exc # "none" THEN R(e.exc, <<>>, e.st)
            ELSE R("none", QuotedNodes(e.val), e.st)
        NoSplit(e) ==
            IF e.exc # "none" THEN R(e.exc, <<>>, e.st)
            ELSE R("none", QuotedNodes(<<e.val>>), e.st)
        Scanned(exp_result) ==
            IF exp_result.exc # "none" THEN Raise(exp_result.exc, <<>>, st)
            ELSE IF exp_result.expand /\ split
                THEN Split(expand_word(st, join_argchars_as_str(argument)))
            ELSE IF exp_result.expand /\ ~split
                THEN NoSplit(expand_no_split(st, join_argchars_as_str(argument)))
            ELSE R("none", <<argument>>, st)
    IN  Scanned(should_expand_var(argument))

\* bash_expand.py:509-516: the loop from argument i on, args as built so far.
RECURSIVE compile_command_arguments_from(_, _, _, _)

\* A variant of the loop that puts the words of an argument before the words
\* of the arguments compiled so far.  C23 tells the two apart.
compile_command_arguments_from_prepend(arguments, i, args, st) ==
    LET Extend(compiled_arg) ==
            IF compiled_arg.exc # "none" THEN R(compiled_arg.exc, args, compiled_arg.st)
            ELSE compile_command_arguments_from(arguments, i + 1,
                                                compiled_arg.val \o args, compiled_arg.st)
    IN  IF i > Len(arguments) THEN R("none", args, st)
        ELSE Extend(compile_command_argument(arguments[i], st, TRUE))

compile_command_arguments_from(arguments, i, args, st) ==
    LET Extend(compiled_arg) ==
            IF compiled_arg.exc # "none" THEN R(compiled_arg.exc, args, compiled_arg.st)
            ELSE compile_command_arguments_from(arguments, i + 1,
                                                args \o compiled_arg.val, compiled_arg.st)
    IN  IF i > Len(arguments) THEN R("none", args, st)
        ELSE Extend(compile_command_argument(arguments[i], st, TRUE))

\* bash_expand.py:509-516
compile_command_arguments(arguments, st) ==
    compile_command_arguments_from(arguments, 1, <<>>, st)

\* bash_expand.py:544-549: the string returned by expand_no_split is iterated
\* character by character.
compile_arith_argument(argument, st) ==
    LET Nodes(e) ==
            IF e.exc # "none" THEN R(e.exc, <<>>, e.st)
            ELSE R("none", [i \in 1..Len(e.val) |-> str_to_arg_chars(<<e.val[i]>>)], e.st)
    IN  Nodes(expand_no_split(st, join_argchars_as_str(argument)))

\* bash_expand.py:534-541: the loop from argument i on.
RECURSIVE compile_arith_arguments_from(_, _, _, _)
compile_arith_arguments_from(arguments, i, args, st) ==
    LET Extend(argument) ==
            IF argument.exc # "none" THEN R(argument.exc, args, argument.st)
            ELSE compile_arith_arguments_from(arguments, i + 1,
                                              Append(args, argument.val), argument.st)
    IN  IF i > Len(arguments) THEN R("none", args, st)
        ELSE Extend(compile_arith_argument(arguments[i], st))

\* bash_expand.py:534-541
compile_arith_arguments(arguments, st) ==
    compile_arith_arguments_from(arguments, 1, <<>>, st)

\* redir.arg = compile_command_argument(redir.arg, exp_state, split=False)[0]
SetArg(redir, a) ==
    IF a.exc # "none" THEN R(a.exc, redir, a.st)
    ELSE R("none", [redir EXCEPT !.arg = a.val[1]], a.st)

\* bash_expand.py:588-594
compile_redirection_file(redir, st) ==
    IF redir.fd[1] = "var" THEN Raise("ImpureExpansion", redir, st)
    ELSE SetArg(redir, compile_command_argument(redir.arg, st, FALSE))

\* A variant of compile_redirection_dup that rejects every Dup redirection.
\* C14 tells the two apart.
compile_redirection_dup_always(redir, st) == Raise("ImpureExpansion", redir, st)

\* bash_expand.py:597-604
compile_redirection_dup(redir, st) ==
    IF redir.fd[1] = "var" THEN Raise("ImpureExpansion", redir, st)
    ELSE IF redir.arg[1] = "var" THEN Raise("ImpureExpansion", redir, st)
    ELSE R("none", redir, st)

\* bash_expand.py:607-613
compile_redirection_here(redir, st) ==
    IF redir.fd[1] = "var" THEN Raise("ImpureExpansion", redir, st)
    ELSE SetArg(redir, compile_command_argument(redir.arg, st, FALSE))

\* bash_expand.py:616-621
compile_redirection_single_arg(redir, st) ==
    IF redir.fd[1] = "var" THEN Raise("ImpureExpansion", redir, st)
    ELSE R("none", redir, st)

\* bash_expand.py:558-571
compile_redirection(redir, st) ==
    LET type == redir.NodeName
    IN  IF type = "File" THEN compile_redirection_file(redir, st)
        ELSE IF type = "Dup" THEN compile_redirection_dup(redir, st)
        ELSE IF type = "Heredoc" THEN compile_redirection_here(redir, st)
        ELSE IF type = "SingleArg" THEN compile_redirection_single_arg(redir, st)
        ELSE Raise("NotImplementedError", redir, st)

\* bash_expand.py:552-555: the comprehension from redirection i on.  The
\* redirections are mutated in place, so the list holds the compiled ones
\* also when a later one raises.
RECURSIVE compile_redirections_from(_, _, _)
compile_redirections_from(redir_list, i, st) ==
    LET Rest(r) ==
            IF r.exc # "none" THEN R(r.exc, [redir_list EXCEPT ![i] = r.val], r.st)
            ELSE compile_redirections_from([redir_list EXCEPT ![i] = r.val], i + 1, r.st)
    IN  IF i > Len(redir_list) THEN R("none", redir_list, st)
        ELSE Rest(compile_redirection(redir_list[i], st))

\* bash_expand.py:552-555
compile_redirections(redir_list, st) == compile_redirections_from(redir_list, 1, st)

RECURSIVE compile_node(_, _)

RECURSIVE compile_nodes_from(_, _, _)

\* A variant of the comprehension that catches the failure of an item and
\* goes on with the next one.  C12 tells the two apart.
compile_nodes_from_continue(items, i, st) ==
    LET Rest(r) == compile_nodes_from([items EXCEPT ![i] = r.val], i + 1, r.st)
    IN  IF i > Len(items) THEN R("none", items, st)
        ELSE Rest(compile_node(items[i], st))

\* [compile_node(item, exp_state) for item in items], from item i on.
compile_nodes_from(items, i, st) ==
    LET Rest(r) ==
            IF r.exc # "none" THEN R(r.exc, [items EXCEPT ![i] = r.val], r.st)
            ELSE compile_nodes_from([items EXCEPT ![i] = r.val], i + 1, r.st)
    IN  IF i > Len(items) THEN R("none", items, st)
        ELSE Rest(compile_node(items[i], st))

\* bash_expand.py:339-343
compile_node_pipe(ast_node, st) ==
    LET Items(b) == R(b.exc, [ast_node EXCEPT !.items = b.val], b.st)
        Entered(e) ==
            IF e.exc # "none" THEN R(e.exc, ast_node, e.st)
            ELSE Items(compile_nodes_from(ast_node.items, 1, e.st))
    IN  subshell_exit(Entered(subshell_enter(st)), Len(st.shells))

\* A variant of compile_node_command that looks at the assignments only after
\* the arguments and redirections are compiled.  C4 tells the two apart.
compile_node_command_late(ast_node, st) ==
    LET Assignments(r) ==
            IF r.exc = "none" /\ ast_node.assignments # <<>>
            THEN Raise("ImpureExpansion", r.val, r.st)
            ELSE r
        Redirections(n1, r) == R(r.exc, [n1 EXCEPT !.redir_list = r.val], r.st)
        Arguments(a) ==
            IF a.exc # "none" THEN R(a.exc, ast_node, a.st)
            ELSE Redirections([ast_node EXCEPT !.arguments = a.val],
                              compile_redirections(ast_node.redir_list, a.st))
    IN  Assignments(Arguments(compile_command_arguments(ast_node.arguments, st)))

\* bash_expand.py:346-356
compile_node_command(ast_node, st) ==
    LET Redirections(n1, r) == R(r.exc, [n1 EXCEPT !.redir_list = r.val], r.st)
        Arguments(a) ==
            IF a.exc # "none" THEN R(a.exc, ast_node, a.st)
            ELSE Redirections([ast_node EXCEPT !.arguments = a.val],
                              compile_redirections(ast_node.redir_list, a.st))
    IN  IF ast_node.assignments # <<>> THEN Raise("ImpureExpansion", ast_node, st)
        ELSE Arguments(compile_command_arguments(ast_node.arguments, st))

\* bash_expand.py:359-362
compile_node_subshell(ast_node, st) ==
    LET Body(b) == R(b.exc, [ast_node EXCEPT !.body = b.val], b.st)
        Entered(e) ==
            IF e.exc # "none" THEN R(e.exc, ast_node, e.st)
            ELSE Body(compile_node(ast_node.body, e.st))
    IN  subshell_exit(Entered(subshell_enter(st)), Len(st.shells))

\* compile_node_and, compile_node_or, compile_node_semi: left, then right.
compile_operands(ast_node, st) ==
    LET Right(n1, r) == R(r.exc, [n1 EXCEPT !.right_operand = r.val], r.st)
        Left(l) ==
            IF l.exc # "none" THEN R(l.exc, [ast_node EXCEPT !.left_operand = l.val], l.st)
            ELSE Right([ast_node EXCEPT !.left_operand = l.val],
                       compile_node(ast_node.right_operand, l.st))
    IN  Left(compile_node(ast_node.left_operand, st))

\* bash_expand.py:365-368
compile_node_and(ast_node, st) == compile_operands(ast_node, st)

\* bash_expand.py:371-374
compile_node_or(ast_node, st) == compile_operands(ast_node, st)

\* bash_expand.py:377-380
compile_node_semi(ast_node, st) == compile_operands(ast_node, st)

\* bash_expand.py:383-385
compile_node_not(ast_node, st) ==
    LET Body(b) == R(b.exc, [ast_node EXCEPT !.body = b.val], b.st)
    IN  Body(compile_node(ast_node.body, st))

\* bash_expand.py:388-391
compile_node_redir(ast_node, st) ==
    LET Redirections(n1, r) == R(r.exc, [n1 EXCEPT !.redir_list = r.val], r.st)
        Node(n) ==
            IF n.exc # "none" THEN R(n.exc, [ast_node EXCEPT !.node = n.val], n.st)
            ELSE Redirections([ast_node EXCEPT !.node = n.val],
                              compile_redirections(ast_node.redir_list, n.st))
    IN  Node(compile_node(ast_node.node, st))

\* bash_expand.py:394-398
compile_node_background(ast_node, st) ==
    LET Node(n1, b) == R(b.exc, [n1 EXCEPT !.node = b.val], b.st)
        Entered(n1, e) ==
            IF e.exc # "none" THEN R(e.exc, n1, e.st)
            ELSE Node(n1, compile_node(n1.node, e.st))
        Redirections(r) ==
            IF r.exc # "none" THEN R(r.exc, [ast_node EXCEPT !.redir_list = r.val], r.st)
            ELSE subshell_exit(Entered([ast_node EXCEPT !.redir_list = r.val],
                                       subshell_enter(r.st)),
                               Len(r.st.shells))
    IN  Redirections(compile_redirections(ast_node.redir_list, st))

\* bash_expand.py:407-411
compile_node_defun(ast_node, st) == Raise("Unimplemented", ast_node, st)

\* A variant of compile_node_for that compiles the body of the loop instead
\* of rejecting the node.  C5 tells the two apart.
compile_node_for_body(ast_node, st) ==
    LET Body(b) == R(b.exc, [ast_node EXCEPT !.body = b.val], b.st)
    IN  Body(compile_node(ast_node.body, st))

\* bash_expand.py:414-420
compile_node_for(ast_node, st) == Raise("Unimplemented", ast_node, st)

\* bash_expand.py:423-426
compile_node_while(ast_node, st) ==
    LET Body(n1, b) == R(b.exc, [n1 EXCEPT !.body = b.val], b.st)
        Test(t) ==
            IF t.exc # "none" THEN R(t.exc, [ast_node EXCEPT !.test = t.val], t.st)
            ELSE Body([ast_node EXCEPT !.test = t.val], compile_node(ast_node.body, t.st))
    IN  Test(compile_node(ast_node.test, st))

\* bash_expand.py:440-446
compile_node_if(ast_node, st) ==
    LET Else(n2, e) == R(e.exc, [n2 EXCEPT !.else_b = e.val], e.st)
        Then(n1, t) ==
            IF t.exc # "none" THEN R(t.exc, [n1 EXCEPT !.then_b = t.val], t.st)
            ELSE Else([n1 EXCEPT !.then_b = t.val],
                      IF ast_node.else_b # NoneNode THEN compile_node(ast_node.else_b, t.st)
                      ELSE R("none", NoneNode, t.st))
        Cond(c) ==
            IF c.exc # "none" THEN R(c.exc, [ast_node EXCEPT !.cond = c.val], c.st)
            ELSE Then([ast_node EXCEPT !.cond = c.val], compile_node(ast_node.then_b, c.st))
    IN  Cond(compile_node(ast_node.cond, st))

\* bash_expand.py:580-585: a case is mutated in place.
compile_command_case(case, st) ==
    LET Body(c1, b) == R(b.exc, [c1 EXCEPT !.body = b.val], b.st)
        Pattern(p) ==
            IF p.exc # "none" THEN R(p.exc, case, p.st)
            ELSE Body([case EXCEPT !.pattern = p.val[1]], compile_node(case.body, p.st))
    IN  Pattern(compile_command_argument(case.pattern, st, FALSE))

\* bash_expand.py:574-577: the comprehension from case i on.
RECURSIVE compile_command_cases_from(_, _, _)
compile_command_cases_from(cases, i, st) ==
    LET Rest(r) ==
            IF r.exc # "none" THEN R(r.exc, [cases EXCEPT ![i] = r.val], r.st)
            ELSE compile_command_cases_from([cases EXCEPT ![i] = r.val], i + 1, r.st)
    IN  IF i > Len(cases) THEN R("none", cases, st)
        ELSE Rest(compile_command_case(cases[i], st))

\* bash_expand.py:574-577
compile_command_cases(cases, st) == compile_command_cases_from(cases, 1, st)

\* bash_expand.py:449-452: the argument is compiled with the default split=True.
compile_node_case(ast_node, st) ==
    LET Cases(n1, c) == R(c.exc, [n1 EXCEPT !.cases = c.val], c.st)
        Argument(a) ==
            IF a.exc # "none" THEN R(a.exc, ast_node, a.st)
            ELSE Cases([ast_node EXCEPT !.argument = a.val],
                       compile_command_cases(ast_node.cases, a.st))
    IN  Argument(compile_command_argument(ast_node.argument, st, TRUE))

\* bash_expand.py:455-460
compile_node_select(ast_node, st) == Raise("Unimplemented", ast_node, st)

\* bash_expand.py:463-465
compile_node_arith(ast_node, st) ==
    LET Body(b) ==
            IF b.exc # "none" THEN R(b.exc, ast_node, b.st)
            ELSE R("none", [ast_node EXCEPT !.body = b.val], b.st)
    IN  Body(compile_arith_arguments(ast_node.body, st))

\* One operand of bash_expand.py:468-478: compiled with the default split=True
\* when it is true, else None.
compile_cond_operand(o, st) ==
    LET Compiled(a) == R(a.exc, IF a.exc = "none" THEN Some(a.val) ELSE o, a.st)
    IN  IF Truthy(o) THEN Compiled(compile_command_argument(o.v, st, TRUE))
        ELSE R("none", None, st)

\* bash_expand.py:468-478
compile_node_cond(ast_node, st) ==
    LET Right(n2, r) == R(r.exc, [n2 EXCEPT !.right = r.val], r.st)
        Left(n1, l) ==
            IF l.exc # "none" THEN R(l.exc, n1, l.st)
            ELSE Right([n1 EXCEPT !.left = l.val], compile_cond_operand(n1.right, l.st))
        Op(o) ==
            IF o.exc # "none" THEN R(o.exc, ast_node, o.st)
            ELSE Left([ast_node EXCEPT !.op = o.val],
                      compile_cond_operand(ast_node.left, o.st))
    IN  Op(compile_cond_operand(ast_node.op, st))

\* bash_expand.py:481-487
compile_node_arith_for(ast_node, st) == Raise("Unimplemented", ast_node, st)

\* bash_expand.py:490-494
compile_node_coproc(ast_node, st) == Raise("Unimplemented", ast_node, st)

\* bash_expand.py:497-499
compile_node_time(ast_node, st) ==
    LET Command(c) == R(c.exc, [ast_node EXCEPT !.command = c.val], c.st)
    IN  Command(compile_node(ast_node.command, st))

\* bash_expand.py:502-506: the redirections of a group are not compiled.
compile_node_group(ast_node, st) ==
    LET Body(b) == R(b.exc, [ast_node EXCEPT !.body = b.val], b.st)
    IN  Body(compile_node(ast_node.body, st))

\* bash_expand.py:290-336
compile_node(ast_object, st) ==
    LET node_name == ast_object.NodeName
    IN  CASE node_name = "Pipe" -> compile_node_pipe(ast_object, st)
          [] node_name = "Command" -> compile_node_command(ast_object, st)
          [] node_name = "Subshell" -> compile_node_subshell(ast_object, st)
          [] node_name = "And" -> compile_node_and(ast_object, st)
          [] node_name = "Or" -> compile_node_or(ast_object, st)
          [] node_name = "Semi" -> compile_node_semi(ast_object, st)
          [] node_name = "Not" -> compile_node_not(ast_object, st)
          [] node_name = "Redir" -> compile_node_redir(ast_object, st)
          [] node_name = "Background" -> compile_node_background(ast_object, st)
          [] node_name = "Defun" -> compile_node_defun(ast_object, st)
          [] node_name = "For" -> compile_node_for(ast_object, st)
          [] node_name = "While" -> compile_node_while(ast_object, st)
          [] node_name = "If" -> compile_node_if(ast_object, st)
          [] node_name = "Case" -> compile_node_case(ast_object, st)
          [] node_name = "Select" -> compile_node_select(ast_object, st)
          [] node_name = "Arith" -> compile_node_arith(ast_object, st)
          [] node_name = "Cond" -> compile_node_cond(ast_object, st)
          [] node_name = "ArithFor" -> compile_node_arith_for(ast_object, st)
          [] node_name = "Coproc" -> compile_node_coproc(ast_object, st)
          [] node_name = "Time" -> compile_node_time(ast_object, st)
          [] node_name = "Group" -> compile_node_group(ast_object, st)
          [] OTHER -> Raise("NotImplementedError", ast_object, st)

\* A variant of check_dangerous_sets that lets every set of options pass.
\* C15 tells the two apart.
check_dangerous_sets_none(env_dict) == "none"

\* bash_expand.py:143-151: env_dict is [has, sets]: whether it holds the key
\* "$-", and the option letters of its value.
check_dangerous_sets(env_dict) ==
    IF env_dict.has /\ "u" \in env_dict.sets THEN "Unimplemented" ELSE "none"

\* A variant of expand_command that closes the session before it returns or
\* raises.  C8 tells the two apart.
expand_command_closing(ast, st, env_vars_file, env_vars_state) ==
    LET Closed(r) == R(r.exc, r.val, [r.st EXCEPT !.is_open = FALSE])
        Checked(s, d) ==
            IF d # "none" THEN Raise(d, ast, s.st)
            ELSE compile_node(ast, s.st)
        Sourced(s) ==
            IF s.exc # "none" THEN R(s.exc, ast, s.st)
            ELSE Checked(s, check_dangerous_sets(env_vars_state))
    IN  Closed(Sourced(run_command(st, source_file_cmd(env_vars_file))))

\* bash_expand.py:65-76
expand_command(ast, st, env_vars_file, env_vars_state) ==
    LET Checked(s, d) ==
            IF d # "none" THEN Raise(d, ast, s.st)
            ELSE compile_node(ast, s.st)
        Sourced(s) ==
            IF s.exc # "none" THEN R(s.exc, ast, s.st)
            ELSE Checked(s, check_dangerous_sets(env_vars_state))
    IN  Sourced(run_command(st, source_file_cmd(env_vars_file)))

(***************************************************************************)
(* The session object and what it owns in the operating system.            *)
(*   is_open, debug, bash_mirror   fields of BashExpansionState; a process *)
(*                 is named by its number, bash_mirror = 0 before the      *)
(*                 first successful open()                                 *)
(*   spawned       how many interpreter processes were spawned             *)
(*   shells        for every process its stack of shells, <<>> when the    *)
(*                 process does not exist (any more)                       *)
(*   logfile       for every process the temporary file its transcript is  *)
(*                 logged to (p.logfile), 0 for None; the file made for    *)
(*                 process p is file p                                     *)
(*   files         the temporary files that exist on disk                  *)
(*   openfiles     the temporary files with an open handle                 *)
(*   last          the last call on the session and how it ended           *)
(***************************************************************************)
VARIABLES is_open, debug, bash_mirror, spawned, shells, logfile, files, openfiles, last

vars == <<is_open, debug, bash_mirror, spawned, shells, logfile, files, openfiles, last>>

Pids == 1..MaxSpawn

\* The session and its resources as one value.
World ==
    [is_open |-> is_open, debug |-> debug, bash_mirror |-> bash_mirror,
     spawned |-> spawned, shells |-> shells, logfile |-> logfile,
     files |-> files, openfiles |-> openfiles]

Install(w) ==
    /\ is_open' = w.is_open
    /\ debug' = w.debug
    /\ bash_mirror' = w.bash_mirror
    /\ spawned' = w.spawned
    /\ shells' = w.shells
    /\ logfile' = w.logfile
    /\ files' = w.files
    /\ openfiles' = w.openfiles

\* bash_expand.py:281-284: mkstemp creates file f and opens it.
make_temp_file(w, f) ==
    [w EXCEPT !.files = @ \cup {f}, !.openfiles = @ \cup {f}]

\* bash_expand.py:219-230.  terminated: whether pexpect's close(force=True)
\* gets the child to terminate; when it does not it raises ExceptionPexpect,
\* which close() swallows.
close(w, terminated) ==
    IF ~w.is_open THEN w
    ELSE LET p == w.bash_mirror
             w1 == [w EXCEPT !.is_open = FALSE]
             w2 == IF w1.logfile[p] # 0
                   THEN [w1 EXCEPT !.openfiles = @ \ {w1.logfile[p]}]
                   ELSE w1
         IN  IF terminated THEN [w2 EXCEPT !.shells[p] = <<>>] ELSE w2

\* bash_expand.py:196-210.  prompt: whether the sentinel is seen within the
\* timeout.  When it is not, expect_exact raises and the spawned process is
\* left without an owner: it lives on unless reaped is true (the pexpect
\* object was finalised).
spawn_bash(w, prompt, reaped) ==
    LET p == w.spawned + 1
        w1 == [w EXCEPT !.spawned = p, !.shells[p] = <<InitEnv>>]
        w2 == IF w1.debug
              THEN [make_temp_file(w1, p) EXCEPT !.logfile[p] = p]
              ELSE w1
    IN  IF ~prompt
        THEN R("TIMEOUT", 0, IF reaped THEN [w1 EXCEPT !.shells[p] = <<>>] ELSE w1)
        ELSE R("none", p, w2)

\* bash_expand.py:212-217
open(w, terminated, prompt, reaped) ==
    LET w1 == IF w.is_open THEN close(w, terminated) ELSE w
        s == spawn_bash(w1, prompt, reaped)
    IN  IF s.exc # "none" THEN R(s.exc, 0, s.st)
        ELSE R("none", 0, [s.st EXCEPT !.bash_mirror = s.val, !.is_open = TRUE])

(***************************************************************************)
(* Input trees.                                                            *)
(***************************************************************************)
Command(assignments, arguments, redir_list) ==
    [NodeName |-> "Command", assignments |-> assignments,
     arguments |-> arguments, redir_list |-> redir_list]

Pipe(items) == [NodeName |-> "Pipe", items |-> items]

Subshell(body) == [NodeName |-> "Subshell", body |-> body]

And(l, r) == [NodeName |-> "And", left_operand |-> l, right_operand |-> r]

Redir(node, redir_list) == [NodeName |-> "Redir", node |-> node, redir_list |-> redir_list]

Background(node, redir_list) ==
    [NodeName |-> "Background", node |-> node, redir_list |-> redir_list]

Group(body, redirections) ==
    [NodeName |-> "Group", body |-> body, redirections |-> redirections]

If(cond, then_b, else_b) ==
    [NodeName |-> "If", cond |-> cond, then_b |-> then_b, else_b |-> else_b]

Defun(name, body) == [NodeName |-> "Defun", name |-> name, body |-> body]

For(variable, argument, body) ==
    [NodeName |-> "For", variable |-> variable, argument |-> argument, body |-> body]

Select(variable, body, map_list) ==
    [NodeName |-> "Select", variable |-> variable, body |-> body, map_list |-> map_list]

ArithFor(init, cond, step, action) ==
    [NodeName |-> "ArithFor", init |-> init, cond |-> cond, step |-> step, action |-> action]

Coproc(name, body) == [NodeName |-> "Coproc", name |-> name, body |-> body]

\* A case is the dict {"pattern": ..., "body": ...}.
Case(argument, cases) == [NodeName |-> "Case", argument |-> argument, cases |-> cases]

Arith(body) == [NodeName |-> "Arith", body |-> body]

\* A CondNode: op, left and right are None or a word.
Cond(op, left, right) == [NodeName |-> "Cond", op |-> op, left |-> left, right |-> right]

\* Redirections: fd is <<"fixed", n>> or <<"var", name>>.
FileRedir(fd, arg) == [NodeName |-> "File", fd |-> fd, arg |-> arg]

DupRedir(fd, arg) == [NodeName |-> "Dup", fd |-> fd, arg |-> arg]

HeredocRedir(fd, arg) == [NodeName |-> "Heredoc", fd |-> fd, arg |-> arg]

SingleArgRedir(fd) == [NodeName |-> "SingleArg", fd |-> fd]

\* A node and a redirection of a kind the dispatch does not know (the else
\* branches at bash_expand.py:335-336 and 570-571).
UnknownNode == [NodeName |-> "Unknown"]

UnknownRedir(fd, arg) == [NodeName |-> "Unknown", fd |-> fd, arg |-> arg]

Assign(var, val) == [var |-> var, val |-> val]

FixedFd == <<"fixed", "1">>

VarFd == <<"var", "fd">>

\* The words of the enumerated trees.
W_hello == Word(<<"h", "e", "l", "l", "o">>)

W_x == Word(<<"$", "x">>)

W_s == Word(<<"$", "s">>)

W_inc == Word(<<"$", "(", "(", "x", "+", "+", ")", ")">>)

W_bq == Word(<<"a", BQ, "b", BQ>>)

W_arith_bq == Word(<<"$", "(", "(", BQ, "a", BQ, ")", ")">>)

\* The body of a here-document: the line $x.
W_nl == Word(<<"$", "x", NL>>)

C_hello == Command(<<>>, <<W_hello>>, <<>>)

C_x == Command(<<>>, <<W_x>>, <<>>)

C_inc == Command(<<>>, <<W_inc>>, <<>>)

C_assign == Command(<<Assign("x", Word(<<"1">>))>>, <<W_x>>, <<FileRedir(FixedFd, W_x)>>)

RuntimeFdRedirs ==
    {FileRedir(VarFd, W_hello), DupRedir(VarFd, FixedFd),
     HeredocRedir(VarFd, W_hello), SingleArgRedir(VarFd)}

FixedFdRedirs ==
    {FileRedir(FixedFd, W_x), DupRedir(FixedFd, FixedFd), DupRedir(FixedFd, VarFd),
     HeredocRedir(FixedFd, W_x), SingleArgRedir(FixedFd)}

BindingNodes ==
    UNION {{Defun(W_hello, b), For(W_hello, <<W_x>>, b), Select(W_hello, b, <<W_x>>),
            ArithFor(<<W_x>>, <<W_x>>, <<W_inc>>, b), Coproc(W_hello, b)}
           : b \in {C_hello, C_inc}}

Leaves ==
    {C_hello, C_x, C_inc, C_assign,
     Command(<<>>, <<W_s, W_hello>>, <<>>),
     Command(<<>>, <<W_bq>>, <<>>),
     Command(<<>>, <<W_arith_bq>>, <<>>),
     Case(W_s, <<[pattern |-> W_s, body |-> C_x]>>),
     Arith(<<W_x, W_bq>>),
     Cond(Some(Word(<<"=">>)), Some(W_s), Some(W_hello)),
     UnknownNode,
     Command(<<>>, <<W_x>>, <<UnknownRedir(FixedFd, W_x)>>),
     Command(<<>>, <<W_hello>>, <<HeredocRedir(FixedFd, W_nl)>>)}
    \cup {Command(<<>>, <<W_hello>>, <<r>>) : r \in RuntimeFdRedirs \cup FixedFdRedirs}
    \cup BindingNodes

\* The trees one wrapper node above the trees of T.
Wrap(T) ==
    {Subshell(t) : t \in T}
    \cup {Group(t, rl) : t \in T, rl \in {<<>>, <<FileRedir(VarFd, W_hello)>>,
                                          <<SingleArgRedir(VarFd)>>}}
    \cup {Redir(t, <<r>>) : t \in T, r \in {DupRedir(VarFd, FixedFd), FileRedir(FixedFd, W_x)}}
    \cup {Background(t, rl) : t \in T, rl \in {<<>>, <<HeredocRedir(VarFd, W_hello)>>}}
    \cup {Pipe(<<t, C_x>>) : t \in T}
    \cup {Pipe(<<C_inc, t>>) : t \in T}
    \cup {And(C_inc, t) : t \in T}
    \cup {If(C_x, t, NoneNode) : t \in T}

RECURSIVE TreesOfDepth(_)
TreesOfDepth(d) ==
    IF d = 0 THEN Leaves
    ELSE LET T == TreesOfDepth(d - 1) IN T \cup Wrap(T)

Trees == TreesOfDepth(MaxDepth)

\* The caller's variable dump: without "$-", with "$-" = hB, with "$-" = huB.
EnvStates ==
    {[has |-> FALSE, sets |-> {}], [has |-> TRUE, sets |-> {"h", "B"}],
     [has |-> TRUE, sets |-> {"h", "u", "B"}]}

EnvFileName == <<"e", "n", "v">>

(***************************************************************************)
(* The calls on the session.                                               *)
(***************************************************************************)
Call(op, exc) ==
    [op |-> op, exc |-> exc, ast |-> NoneNode, out |-> NoneNode,
     env |-> [has |-> FALSE, sets |-> {}], fault |-> NoFault,
     sent |-> <<>>, scopes |-> <<>>, raised |-> <<>>, stream |-> <<>>, was |-> World]

\* BashExpansionState(debug=...), bash_expand.py:181-194, with open=False.
Init ==
    /\ is_open = FALSE
    /\ debug \in BOOLEAN
    /\ bash_mirror = 0
    /\ spawned = 0
    /\ shells = [p \in Pids |-> <<>>]
    /\ logfile = [p \in Pids |-> 0]
    /\ files = {}
    /\ openfiles = {}
    /\ last = [op |-> "init", exc |-> "none", ast |-> NoneNode, out |-> NoneNode,
               env |-> [has |-> FALSE, sets |-> {}], fault |-> NoFault,
               sent |-> <<>>, scopes |-> <<>>, raised |-> <<>>, stream |-> <<>>,
               was |-> [is_open |-> FALSE, debug |-> debug, bash_mirror |-> 0,
                        spawned |-> 0, shells |-> [p \in Pids |-> <<>>],
                        logfile |-> [p \in Pids |-> 0], files |-> {}, openfiles |-> {}]]

\* exp_state.open()
Open ==
    /\ spawned < MaxSpawn
    /\ \E terminated \in BOOLEAN, prompt \in BOOLEAN, reaped \in BOOLEAN :
        /\ is_open \/ terminated
        /\ prompt => ~reaped
        /\ LET r == open(World, terminated, prompt, reaped)
           IN  /\ Install(r.st)
               /\ last' = Call("open", r.exc)

\* exp_state.close()
Close ==
    \E terminated \in BOOLEAN :
        /\ is_open \/ terminated
        /\ Install(close(World, terminated))
        /\ last' = Call("close", "none")

\* The session the compiler is handed in world w: the flag, and the process
\* behind bash_mirror.
SessionOf(w, fault) ==
    [is_open |-> w.is_open,
     shells |-> IF w.bash_mirror = 0 THEN <<>> ELSE w.shells[w.bash_mirror],
     sent |-> <<>>, fault |-> fault, fired |-> FALSE, scopes |-> <<>>,
     raised |-> <<>>, stream |-> <<>>]

Session(fault) == SessionOf(World, fault)

\* The faults that can happen while r0, the undisturbed run, writes its lines:
\* up to the faulty line a disturbed run writes what r0 writes.
FaultsDuring(r0) ==
    {NoFault} \cup
    {f \in Faults : /\ f.at \in 1..Len(r0.st.sent)
                    /\ f.kind = "nostart" => r0.st.sent[f.at].cmd = "bash"}

\* expand_command(ast, exp_state, env_vars_file, env_vars_state)
Expand(ast, env_vars_state, fault) ==
    LET Returned(r) ==
            /\ fault = NoFault \/ r.st.fired
            /\ is_open' = r.st.is_open
            /\ shells' = [shells EXCEPT ![bash_mirror] = r.st.shells]
            /\ last' = [Call("expand_command", r.exc) EXCEPT
                           !.ast = ast, !.out = r.val, !.env = env_vars_state,
                           !.fault = fault, !.sent = r.st.sent, !.scopes = r.st.scopes,
                           !.raised = r.st.raised, !.stream = r.st.stream]
            /\ UNCHANGED <<debug, bash_mirror, spawned, logfile, files, openfiles>>
    IN  Returned(expand_command(ast, Session(fault), EnvFileName, env_vars_state))

\* The caller hands expand_command a session it has just opened
\* (run_tests.py:183-189).
ExpandCommand ==
    /\ last.op = "open" /\ last.exc = "none"
    /\ \E ast \in Trees, env_vars_state \in EnvStates :
        \E fault \in FaultsDuring(expand_command(ast, Session(NoFault), EnvFileName,
                                                 env_vars_state)) :
            Expand(ast, env_vars_state, fault)

\* The first open() of a session.
FirstOpen == spawned = 0 /\ Open

(***************************************************************************)
(* Spec: one compile attempt.  The caller constructs a session, opens it,  *)
(* hands it to expand_command with a tree, and may close it at any time.   *)
(***************************************************************************)
Next == FirstOpen \/ Close \/ ExpandCommand

Spec == Init /\ [][Next]_vars

(***************************************************************************)
(* SpecLifecycle: any sequence of open() and close() on one session.       *)
(***************************************************************************)
NextLifecycle == Open \/ Close

SpecLifecycle == Init /\ [][NextLifecycle]_vars

(***************************************************************************)
(* SpecWords: one compile attempt of a simple command whose last argument  *)
(* is any word of up to MaxLen characters of Alphabet, alone or after the  *)
(* word $s, which the interpreter splits in two.                           *)
(***************************************************************************)
RECURSIVE StrsOfLen(_)
StrsOfLen(n) ==
    IF n = 0 THEN {<<>>}
    ELSE {Append(s, c) : s \in StrsOfLen(n - 1), c \in Alphabet}

Words == {Word(s) : s \in UNION {StrsOfLen(n) : n \in 1..MaxLen}}

ExpandWord ==
    /\ last.op = "open" /\ last.exc = "none"
    /\ \E word \in Words, before \in {<<>>, <<W_s>>} :
        Expand(Command(<<>>, before \o <<word>>, <<>>), [has |-> FALSE, sets |-> {}], NoFault)

NextWords == FirstOpen \/ Close \/ ExpandWord

SpecWords == Init /\ [][NextWords]_vars

(***************************************************************************)
(* Properties.  They read `last`, the record of the last call: the tree    *)
(* it was given (ast), the tree as the call left it (out), the failure it  *)
(* ended with (exc), the lines it wrote (sent), the subshell() scopes it   *)
(* used (scopes) and the world before it (was).                            *)
(***************************************************************************)
Compiled == last.op = "expand_command"

\* check_dangerous_sets lets the caller's variables pass.
EnvOk == check_dangerous_sets(last.env) = "none"

\* The session when expand_command calls compile_node: the caller's variables
\* are sourced.
Sourced == run_command(SessionOf(last.was, NoFault), source_file_cmd(EnvFileName)).st

\* No word was sent to the oracle.
NoProbe(sent) == \A i \in 1..Len(sent) : sent[i].cmd \notin {"printf", "echo"}

CharsOf(word) == {word[i].c[1] : i \in 1..Len(word)}

\* The processes of the session that are alive.
Alive == {p \in Pids : shells[p] # <<>>}

(***************************************************************************)
(* C1  Pipe-stage isolation.                                               *)
(***************************************************************************)
\* The session inside the scope compile_node_pipe opens.
PipeScope == subshell_enter(Sourced).st

\* C1: when a Pipe is compiled, no stage sees what the compilation of an
\* earlier stage did to the interpreter's variables: every stage comes out as
\* it would when compiled alone in the state the pipe's scope started in.
C1_PipeStageIsolation ==
    (Compiled /\ last.ast.NodeName = "Pipe" /\ last.fault = NoFault /\ last.exc = "none")
    => \A j \in 1..Len(last.ast.items) :
           last.out.items[j] = compile_node(last.ast.items[j], PipeScope).val

\* The pipe $((x++)) | $x compiled: x is 1 in the sourced variables, and the
\* second stage is resolved to 2, the value the first stage left behind.
C1_LeakReached ==
    /\ Compiled /\ last.fault = NoFault /\ last.exc = "none"
    /\ last.ast = Pipe(<<C_inc, C_x>>)
    /\ last.out.items[1].arguments = <<<<str_to_quoted_arg_char(<<"1">>)>>>>
    /\ last.out.items[2].arguments = <<<<str_to_quoted_arg_char(<<"2">>)>>>>

(***************************************************************************)
(* C2  Words without special characters pass through.                      *)
(***************************************************************************)
\* The characters the identity property is stated for.
ClaimChars == {"{", "$", "~", "[", DQ, SQ, BQ, "*", "?", "!", "(", "="}

LastIndex == Len(last.ast.arguments)

LastArg == last.ast.arguments[LastIndex]

\* A simple command without assignments was compiled in a session that
\* answers.
SimpleCommandCompiled ==
    /\ Compiled /\ EnvOk /\ last.fault = NoFault
    /\ last.ast.NodeName = "Command"
    /\ last.ast.assignments = <<>>
    /\ last.ast.arguments # <<>>

NotSent(word) ==
    \A i \in 1..Len(last.sent) : last.sent[i].word # join_argchars_as_str(word)

\* C2 as stated: a last argument with none of ClaimChars is returned unchanged
\* at the position it had, no failure is raised and it is not sent to the
\* oracle.
C2_IdentityAsStated ==
    (SimpleCommandCompiled /\ CharsOf(LastArg) \cap ClaimChars = {})
    => /\ last.exc = "none"
       /\ Len(last.out.arguments) >= LastIndex
       /\ last.out.arguments[LastIndex] = LastArg
       /\ NotSent(LastArg)

\* C2: a last argument with none of ClaimChars and no DEL is returned
\* unchanged, right after the words the arguments before it compiled to; no
\* failure is raised and it is not sent to the oracle.
C2_Identity ==
    (SimpleCommandCompiled /\ CharsOf(LastArg) \cap (ClaimChars \cup {DEL}) = {})
    => /\ last.exc = "none"
       /\ last.out.arguments =
              compile_command_arguments(SubSeq(last.ast.arguments, 1, LastIndex - 1),
                                        Sourced).val \o <<LastArg>>
       /\ NotSent(LastArg)

\* The command `$s a+a` compiled: $s became two words, a+a is the third.
C2_PassedThrough ==
    /\ SimpleCommandCompiled
    /\ last.ast.arguments = <<W_s, Word(<<"a", "+", "a">>)>>
    /\ last.exc = "none"
    /\ Len(last.out.arguments) = 3
    /\ last.out.arguments[3] = LastArg

(***************************************************************************)
(* C3  A backtick anywhere is ImpureExpansion.                             *)
(***************************************************************************)
\* C3: compiling a simple command one of whose argument words holds a
\* backtick raises ImpureExpansion.
C3_BacktickIsImpure ==
    (SimpleCommandCompiled
        /\ \E k \in 1..Len(last.ast.arguments) : BQ \in CharsOf(last.ast.arguments[k]))
    => last.exc = "ImpureExpansion"

\* A word with a backtick was sent to the oracle and the compile succeeded.
C3_BacktickSent ==
    /\ SimpleCommandCompiled
    /\ last.exc = "none"
    /\ \E i \in 1..Len(last.sent) : \E j \in 1..Len(last.sent[i].word) :
           last.sent[i].cmd = "printf" /\ last.sent[i].word[j] = BQ

(***************************************************************************)
(* C4  A command with an assignment is rejected before anything is sent.   *)
(***************************************************************************)
Assigned(node) == node.NodeName = "Command" /\ node.assignments # <<>>

\* C4: compiling a Command with an assignment, at the root or as the body of
\* a Subshell, raises ImpureExpansion, sends no word to the oracle and leaves
\* the node, its arguments and redirections as they were.
C4_AssignmentRejectedFirst ==
    (Compiled /\ EnvOk /\ last.fault = NoFault)
    => /\ Assigned(last.ast)
          => /\ last.exc = "ImpureExpansion"
             /\ last.sent = <<source_file_cmd(EnvFileName)>>
             /\ last.out = last.ast
       /\ (last.ast.NodeName = "Subshell" /\ Assigned(last.ast.body))
          => /\ last.exc = "ImpureExpansion"
             /\ NoProbe(last.sent)
             /\ last.out = last.ast

\* x=1 $x > $x was compiled and rejected.
C4_AssignmentRejected ==
    /\ Compiled /\ EnvOk /\ last.fault = NoFault
    /\ last.ast = C_assign
    /\ last.exc = "ImpureExpansion"
    /\ Len(last.sent) = 1

(***************************************************************************)
(* C5  Binding nodes are rejected outright.                                *)
(***************************************************************************)
BindingKinds == {"Defun", "For", "Select", "ArithFor", "Coproc"}

\* C5: compiling a Defun, For, Select, ArithFor or Coproc node, at the root
\* or as the body of a Group, raises Unimplemented whatever its parts are,
\* writes nothing to the oracle but the caller's variables, and leaves the
\* node as it was.
C5_BindingNodesUnimplemented ==
    (Compiled /\ EnvOk /\ last.fault = NoFault)
    => /\ last.ast.NodeName \in BindingKinds
          => /\ last.exc = "Unimplemented"
             /\ last.sent = <<source_file_cmd(EnvFileName)>>
             /\ last.out = last.ast
       /\ (last.ast.NodeName = "Group" /\ last.ast.body.NodeName \in BindingKinds)
          => /\ last.exc = "Unimplemented"
             /\ last.sent = <<source_file_cmd(EnvFileName)>>
             /\ last.out = last.ast

\* A For node whose body alone would have been compiled was rejected.
C5_ForRejected ==
    /\ Compiled /\ EnvOk /\ last.fault = NoFault
    /\ last.ast = For(W_hello, <<W_x>>, C_inc)
    /\ last.exc = "Unimplemented"
    /\ last.out = last.ast

(***************************************************************************)
(* C6  Runtime file descriptors.                                           *)
(***************************************************************************)
\* A redirection with a runtime file-descriptor operand.
RuntimeFd(redir) ==
    \/ redir.fd[1] = "var"
    \/ redir.NodeName = "Dup" /\ redir.arg[1] = "var"

\* The redirections a node of the enumerated trees carries.
RedirsOf(node) ==
    CASE node.NodeName \in {"Command", "Redir", "Background"} -> node.redir_list
      [] node.NodeName = "Group" -> node.redirections
      [] OTHER -> <<>>

\* The nodes directly below a node of the enumerated trees.
ChildrenOf(node) ==
    CASE node.NodeName = "Pipe" -> node.items
      [] node.NodeName \in {"Subshell", "Group", "Defun", "For", "Select", "Coproc"} ->
            <<node.body>>
      [] node.NodeName = "And" -> <<node.left_operand, node.right_operand>>
      [] node.NodeName \in {"Redir", "Background"} -> <<node.node>>
      [] node.NodeName = "If" -> <<node.cond, node.then_b, node.else_b>>
      [] node.NodeName = "ArithFor" -> <<node.action>>
      [] OTHER -> <<>>

RECURSIVE HasRuntimeFd(_)
HasRuntimeFd(node) ==
    \/ \E i \in 1..Len(RedirsOf(node)) : RuntimeFd(RedirsOf(node)[i])
    \/ \E i \in 1..Len(ChildrenOf(node)) : HasRuntimeFd(ChildrenOf(node)[i])

\* C6: compiling a tree that holds a redirection with a runtime file
\* descriptor, on a Command, Redir, Background or Group, never succeeds.
C6_RuntimeFdRejected ==
    (Compiled /\ HasRuntimeFd(last.ast)) => last.exc # "none"

\* A Group with a runtime file descriptor on its redirection was compiled
\* and returned.
C6_GroupAccepted ==
    /\ Compiled /\ EnvOk /\ last.fault = NoFault
    /\ last.ast.NodeName = "Group"
    /\ \E i \in 1..Len(last.ast.redirections) : RuntimeFd(last.ast.redirections[i])
    /\ last.exc = "none"

(***************************************************************************)
(* C7  subshell() is balanced.                                             *)
(***************************************************************************)
\* The interpreter's fault is a line that had no effect and no answer: what
\* the interpreter does with the lines after it is anyone's guess.
LineLost == last.fault.at > 0 /\ last.fault.kind = "lost"

\* C7: as long as no line is lost, every subshell() scope leaves the stack
\* of shells as deep as it found it, also when the body raised or the nested
\* interpreter did not start.
C7_SubshellBalanced ==
    (Compiled /\ ~LineLost)
    => \A i \in 1..Len(last.scopes) : last.scopes[i].after = last.scopes[i].before

\* The nested interpreter did not start, and leaving the scope terminated
\* the outer interpreter: the process of the session is gone.
C7_OuterTerminated ==
    /\ Compiled
    /\ last.fault.kind = "nostart"
    /\ last.scopes # <<>>
    /\ last.scopes[1].before = 1
    /\ last.scopes[1].after = 0
    /\ shells[bash_mirror] = <<>>

C9_AtMostOneAlive ==
    /\ Cardinality(Alive) <= 1
    /\ is_open <=> Cardinality(Alive) = 1

\* open() failed waiting for the first sentinel: the session is closed and
\* the process it spawned is alive.
C9_OrphanAfterFailedOpen ==
    /\ last.op = "open" /\ last.exc = "TIMEOUT"
    /\ ~is_open
    /\ last.was.spawned = 0
    /\ Alive = {1}

(***************************************************************************)
(* C10  close() releases everything.                                       *)
(***************************************************************************)
\* C10: after close() returns, no process and no temporary file of the
\* session remains.
C10_CloseReleasesAll ==
    last.op = "close" => Alive = {} /\ files = {}

\* The first close() of a session that logs its transcript: the process is
\* terminated, the log file is closed, and it is still on disk.
C10_LogFileLeft ==
    /\ last.op = "close"
    /\ last.was.is_open /\ last.was.spawned = 1
    /\ Alive = {}
    /\ openfiles = {}
    /\ files = {1}

(***************************************************************************)
(* C11  A missing sentinel is StuckExpansion.                              *)
(***************************************************************************)
\* The interpreter did not print the sentinel in time for one of the lines.
SentinelMissed == last.fault.at > 0 /\ last.fault.kind \in {"lost", "late"}

\* C11: when the sentinel is not observed within the bounded wait for a line
\* expand_command writes, the failure that leaves expand_command is
\* StuckExpansion.
C11_MissedSentinelIsStuck ==
    (Compiled /\ SentinelMissed) => last.exc = "StuckExpansion"

\* The sentinel was missed for a printf probe: the probe was written once and
\* pexpect's TIMEOUT leaves expand_command.
C11_TimeoutEscapes ==
    /\ Compiled /\ SentinelMissed
    /\ last.ast = C_x
    /\ last.sent[last.fault.at].cmd = "printf"
    /\ Len(last.sent) = last.fault.at
    /\ last.exc = "TIMEOUT"

(***************************************************************************)
(* C12  A failure aborts the whole attempt.                                *)
(***************************************************************************)
TypedFailures == {"EarlyError", "ImpureExpansion", "Unimplemented", "StuckExpansion"}

\* A raise statement of the compiler raised one of the typed failures.
TypedFailureRaised ==
    Compiled /\ last.raised # <<>> /\ last.raised[1].exc \in TypedFailures

\* The lines written after the first failure was raised.
LinesAfterFailure == SubSeq(last.sent, last.raised[1].at + 1, Len(last.sent))

C13_CaseNeverSplits ==
    (Compiled /\ last.ast.NodeName = "Case")
    => \A i \in 1..Len(last.sent) :
           last.sent[i].cmd = "printf" => last.sent[i].word # join_argchars_as_str(last.ast.argument)

\* case $s in $s) $x;; esac compiled: the argument went through the splitting
\* probe and came back as the two words a and b, the pattern through the
\* non-splitting probe as the one word "a b".
C13_ArgumentSplit ==
    /\ Compiled /\ last.fault = NoFault /\ last.exc = "none"
    /\ last.ast.NodeName = "Case"
    /\ last.sent[2] = printf_cmd(join_argchars_as_str(W_s))
    /\ last.sent[3] = echo_cmd(join_argchars_as_str(W_s))
    /\ last.out.argument = <<<<str_to_quoted_arg_char(<<"a">>)>>,
                             <<str_to_quoted_arg_char(<<"b">>)>>>>
    /\ last.out.cases[1].pattern = <<str_to_quoted_arg_char(<<"a", " ", "b">>)>>

(***************************************************************************)
(* C14  Which redirections compile.                                        *)
(***************************************************************************)
\* A simple command with one redirection was compiled in a session that
\* answers.
OneRedirCompiled ==
    /\ Compiled /\ EnvOk /\ last.fault = NoFault
    /\ last.ast.NodeName = "Command"
    /\ last.ast.assignments = <<>>
    /\ last.ast.arguments = <<W_hello>>
    /\ Len(last.ast.redir_list) = 1

TheRedir == last.ast.redir_list[1]

OptionURecorded ==
    /\ Compiled
    /\ last.env.has /\ "u" \in last.env.sets
    /\ last.fault.at # 1

OneWordCompiled == SimpleCommandCompiled /\ LastIndex = 1

TheWord == join_argchars_as_str(LastArg)

\* The word takes the arithmetic short cut.
ShortCircuited(s) ==
    Len(s) >= 3 /\ SubSeq(s, 1, 3) = <<"$", "(", "(">> /\ "=" \notin {s[i] : i \in 1..Len(s)}

\* The failure the rules give for the character at position i of s, "none"
\* when no rule matches there.
RuleAt(s, i) ==
    IF s[i] = DEL THEN "StuckExpansion"
    ELSE IF s[i] \in {"*", "?", "!"} THEN "Unimplemented"
    ELSE IF \/ s[i] = BQ
            \/ s[i] = "=" /\ \E j \in 1..(i - 1) : s[j] = "$"
            \/ i > 1 /\ s[i - 1] = "~" /\ s[i] \in {"+", "-"}
            \/ s[i] = "("
         THEN "ImpureExpansion"
    ELSE "none"

\* The failure of the leftmost character a rule matches.
FirstRule(s) ==
    IF \A i \in 1..Len(s) : RuleAt(s, i) = "none" THEN "none"
    ELSE RuleAt(s, CHOOSE i \in 1..Len(s) :
                       RuleAt(s, i) # "none" /\ \A j \in 1..(i - 1) : RuleAt(s, j) = "none")

\* C16 as stated: a word that does not take the arithmetic short cut and
\* holds a DEL raises StuckExpansion, whatever else it holds and wherever.
C16_DelAlwaysFirst ==
    (OneWordCompiled /\ ~ShortCircuited(TheWord) /\ DEL \in CharsOf(LastArg))
    => last.exc = "StuckExpansion"

\* C16: for a word that does not take the arithmetic short cut, the failure
\* raised is that of the leftmost character that matches a rule (DEL:
\* StuckExpansion; * ? !: Unimplemented; backtick, = after a $, the second
\* character of ~+ or ~-, and "(": ImpureExpansion); a word no rule matches
\* raises nothing.
C16_LeftmostRuleDecides ==
    (OneWordCompiled /\ ~ShortCircuited(TheWord))
    => /\ last.exc = FirstRule(TheWord)
       /\ should_expand_var(LastArg).exc = FirstRule(TheWord)

\* The word *<DEL> was compiled: the star comes first, the failure is
\* Unimplemented.
C16_GlobBeforeDel ==
    /\ OneWordCompiled
    /\ LastArg = Word(<<"*", DEL>>)
    /\ last.exc = "Unimplemented"

(***************************************************************************)
(* C17  The arithmetic short cut.                                          *)
(***************************************************************************)
StartsArith(s) == Len(s) >= 3 /\ SubSeq(s, 1, 3) = <<"$", "(", "(">>

C17_AssignmentRejected ==
    /\ OneWordCompiled
    /\ LastArg = Word(<<"$", "(", "(", "=">>)
    /\ last.exc = "ImpureExpansion"

(***************************************************************************)
(* C18  Only scanned words reach the oracle.                               *)
(***************************************************************************)
\* The probes among the lines written.
Probes == {i \in 1..Len(last.sent) : last.sent[i].cmd \in {"printf", "echo"}}

\* C18: every word sent to the interpreter by a probe is a word the scanner
\* classifies as safe and in need of expansion.
C18_OnlyScannedWordsSent ==
    Compiled
    => \A i \in Probes : should_expand_var(Word(last.sent[i].word)) = Verdict("none", TRUE)

\* The arithmetic command (( $x a`b` )) compiled: the word with the
\* backticks, which the scanner rejects, was sent with the non-splitting
\* probe and the compile succeeded.
C18_ArithBodySentUnscanned ==
    /\ Compiled /\ last.fault = NoFault
    /\ last.ast = Arith(<<W_x, W_bq>>)
    /\ should_expand_var(W_bq).exc = "ImpureExpansion"
    /\ last.sent[3] = echo_cmd(join_argchars_as_str(W_bq))
    /\ last.exc = "none"

(***************************************************************************)
(* C19  Probing is pure.                                                   *)
(***************************************************************************)
\* The same simple command on both sides of &&.
SameCommandTwice ==
    /\ last.ast.NodeName = "And"
    /\ last.ast.left_operand.NodeName = "Command"
    /\ last.ast.left_operand = last.ast.right_operand

\* C19: a compile that succeeds leaves the variables of the interpreter as
\* they were when the walk began, and resolves the same words probed twice in
\* one scope to the same result.
C19_ProbingIsPure ==
    (Compiled /\ last.fault = NoFault /\ last.exc = "none")
    => /\ shells[bash_mirror] = Sourced.shells
       /\ SameCommandTwice => last.out.left_operand = last.out.right_operand

\* $((x++)) && $((x++)) compiled: the scanner accepted the word, the first
\* probe returned 1, the second 2, and x is 3 in the interpreter.
C19_SecondProbeDiffers ==
    /\ Compiled /\ last.fault = NoFault /\ last.exc = "none"
    /\ last.ast = And(C_inc, C_inc)
    /\ should_expand_var(W_inc) = Verdict("none", TRUE)
    /\ last.out.left_operand.arguments = <<<<str_to_quoted_arg_char(<<"1">>)>>>>
    /\ last.out.right_operand.arguments = <<<<str_to_quoted_arg_char(<<"2">>)>>>>
    /\ shells[bash_mirror] = <<[x |-> 3]>>


(***************************************************************************)
(* C20  Request and response stay in step: when expand_command returns     *)
(* from an undisturbed interpreter, no answer of an earlier command is     *)
(* left unconsumed in the stream, so the text each run_command returned is *)
(* the output of the command it sent; this is claimed for every word the   *)
(* compiler can send, here-document bodies with their newline included.    *)
(***************************************************************************)

\* A here-document whose body is the line $x.
HereLine == Command(<<>>, <<W_hello>>, <<HeredocRedir(FixedFd, W_nl)>>)

\* Some command sent to the interpreter was more than one line.
SentManyLines ==
    \E i \in 1..Len(last.sent) : Len(SplitOn(last.sent[i].word, NL)) > 1

C20_NothingLeftUnconsumed ==
    (Compiled /\ last.fault = NoFault) => last.stream = <<>>

\* cmd <<E ($x) | $x compiled without an exception: the body was sent as two
\* lines and answered twice, every later command read the answer of the one
\* before it, the second stage's $x became no word at all, and an answer is
\* still in the stream.
C20_AnswerLeftInStream ==
    /\ Compiled /\ last.fault = NoFault /\ last.exc = "none"
    /\ last.ast = Pipe(<<HereLine, C_x>>)
    /\ SentManyLines
    /\ last.out.items[2].arguments = <<>>
    /\ last.stream # <<>>


(***************************************************************************)
(* C21  Splitting mode: a command argument sent to the oracle is replaced  *)
(* by as many words as its expansion has fields in the interpreter, none   *)
(* when it has none, one per field and in order otherwise.                 *)
(***************************************************************************)
\* The fields the word expands to in the interpreter with the caller's
\* variables sourced.
FieldsOf(s) == bash_fields(s, FileEnv).fields

\* One word was compiled, the scanner sent it to the oracle and the compile
\* succeeded.
OneWordExpanded ==
    /\ OneWordCompiled
    /\ last.exc = "none"
    /\ should_expand_var(LastArg) = Verdict("none", TRUE)

C21_OneWordPerField ==
    OneWordExpanded => last.out.arguments = QuotedNodes(FieldsOf(TheWord))

\* The command $a, a unset: the expansion has no field, printf prints its
\* format once all the same, and the argument list holds one empty word.
C21_EmptyWordForNoField ==
    /\ OneWordExpanded
    /\ LastArg = Word(<<"$", "a">>)
    /\ FieldsOf(TheWord) = <<>>
    /\ last.sent[2] = printf_cmd(TheWord)
    /\ last.out.arguments = <<<<str_to_quoted_arg_char(<<>>)>>>>


(***************************************************************************)
(* C22  Single-word positions: a redirection target, a here-document body, *)
(* a case argument, a case pattern, a cond operand and an arithmetic       *)
(* expression hold one word before the compile and one word after it, the  *)
(* word itself when the oracle was not asked and else one quoted literal   *)
(* with the string the oracle returned.                                    *)
(***************************************************************************)
\* The string echo -n returns for the word with the caller's variables
\* sourced.
ReturnedFor(word) == echo_out(FieldsOf(SplitOn(join_argchars_as_str(word), NL)[1]))

\* The one word the position is claimed to hold afterwards.
OneWord(word, consulted) ==
    IF consulted THEN <<str_to_quoted_arg_char(ReturnedFor(word))>> ELSE word

Scanned(word) == should_expand_var(word) = Verdict("none", TRUE)

\* The single-word positions of the node: the word before, the value after
\* and whether the oracle was asked for it.
Position(word, after, consulted) == [word |-> word, after |-> after, consulted |-> consulted]

Positions(ast, out) ==
    IF ast.NodeName = "Command"
    THEN {Position(ast.redir_list[i].arg, out.redir_list[i].arg,
                   Scanned(ast.redir_list[i].arg)) :
              i \in {j \in 1..Len(ast.redir_list) :
                         ast.redir_list[j].NodeName \in {"File", "Heredoc"}}}
    ELSE IF ast.NodeName = "Case"
    THEN {Position(ast.argument, out.argument, Scanned(ast.argument))}
         \cup {Position(ast.cases[i].pattern, out.cases[i].pattern,
                        Scanned(ast.cases[i].pattern)) : i \in 1..Len(ast.cases)}
    ELSE IF ast.NodeName = "Cond"
    THEN {Position(ast[f].v, out[f].v, Scanned(ast[f].v)) :
              f \in {g \in {"op", "left", "right"} : Truthy(ast[g])}}
    ELSE IF ast.NodeName = "Arith"
    THEN {Position(ast.body[i], out.body[i], TRUE) : i \in 1..Len(ast.body)}
    ELSE {}

\* Whether two values are the same, also when one is a word and the other a
\* list of words: equality of a record and a sequence is not defined, so the
\* printed forms are compared.
Same(a, b) == ToString(a) = ToString(b)

\* A compile that succeeded in a session that answers.
Succeeded == Compiled /\ EnvOk /\ last.fault = NoFault /\ last.exc = "none"

C22_OneWordForOneWord ==
    Succeeded
    => \A p \in Positions(last.ast, last.out) : Same(p.after, OneWord(p.word, p.consulted))

\* [[ $s = hello ]] compiled: the left operand is the list of the two words
\* a and b, the right operand and the operator are lists of one word each,
\* none of them is a word.
C22_CondOperandsAreLists ==
    /\ Succeeded
    /\ last.ast = Cond(Some(Word(<<"=">>)), Some(W_s), Some(W_hello))
    /\ last.out.left.v = <<<<str_to_quoted_arg_char(<<"a">>)>>,
                           <<str_to_quoted_arg_char(<<"b">>)>>>>
    /\ last.out.right.v = <<W_hello>>
    /\ last.out.op.v = <<Word(<<"=">>)>>


(***************************************************************************)
(* C23  The argument list returned for a Command is the concatenation, in  *)
(* source order, of the results of its arguments: the word itself when the *)
(* scanner reports that it needs no expansion, else the strings the oracle *)
(* returned for it, each wrapped as one quoted-literal word.               *)
(***************************************************************************)
\* What the interpreter answers to the splitting probe of the word in env,
\* cut at the NULs.
OracleResults(word, env) ==
    SplitOutput(printf_out(bash_fields(join_argchars_as_str(word), env).fields))

\* The concatenation the claim describes, from argument i on, the
\* interpreter's variables being env when argument i is reached.
RECURSIVE SplicedFrom(_, _, _)
SplicedFrom(arguments, i, env) ==
    IF i > Len(arguments) THEN <<>>
    ELSE IF Scanned(arguments[i])
        THEN QuotedNodes(OracleResults(arguments[i], env))
             \o SplicedFrom(arguments, i + 1,
                            bash_fields(join_argchars_as_str(arguments[i]), env).env)
    ELSE <<arguments[i]>> \o SplicedFrom(arguments, i + 1, env)

C23_SplicedInOrder ==
    (SimpleCommandCompiled /\ last.exc = "none")
    => last.out.arguments = SplicedFrom(last.ast.arguments, 1, FileEnv)

\* The command `$s ~` compiled: the two words of $s come first, the home
\* directory the tilde stands for is the third.
C23_TwoResultsInOrder ==
    /\ SimpleCommandCompiled /\ last.exc = "none"
    /\ last.ast.arguments = <<W_s, Word(<<"~">>)>>
    /\ last.sent = <<source_file_cmd(EnvFileName), printf_cmd(<<"$", "s">>),
                     printf_cmd(<<"~">>)>>
    /\ last.out.arguments = <<<<str_to_quoted_arg_char(<<"a">>)>>,
                              <<str_to_quoted_arg_char(<<"b">>)>>,
                              <<str_to_quoted_arg_char(<<"/", "h">>)>>>>


(***************************************************************************)
(* C24  The in-word assignment rule of the scanner: which = raises         *)
(* ImpureExpansion in a word that does not take the arithmetic short cut.  *)
(***************************************************************************)
\* What the loop of the scanner makes of the first n characters of s.
ScanOfPrefix(s, n) == ScanFrom(Word(SubSeq(s, 1, n)), 1, FALSE, <<>>, FALSE)

\* The = signs of s the scan reaches: no character before them raises.
ReachedAssignments(s) ==
    {i \in 1..Len(s) : s[i] = "=" /\ ScanOfPrefix(s, i - 1).exc = "none"}

\* C24 as stated: an = the scan reaches raises ImpureExpansion exactly when
\* the character right before it is a $.
C24_OnlyRightAfterDollar ==
    (OneWordCompiled /\ ~ShortCircuited(TheWord))
    => \A i \in ReachedAssignments(TheWord) :
           (ScanOfPrefix(TheWord, i).exc = "ImpureExpansion")
               <=> (i > 1 /\ TheWord[i - 1] = "$")

\* C24: an = the scan reaches raises ImpureExpansion exactly when a $ stands
\* anywhere before it in the word, right before it or not; the compile then
\* fails with ImpureExpansion at the scan, before any probe.  An = with no $
\* before it raises nothing.
C24_AssignmentAfterAnyDollar ==
    (OneWordCompiled /\ ~ShortCircuited(TheWord))
    => \A i \in ReachedAssignments(TheWord) :
           IF \E j \in 1..(i - 1) : TheWord[j] = "$"
           THEN /\ ScanOfPrefix(TheWord, i).exc = "ImpureExpansion"
                /\ should_expand_var(LastArg) = Verdict("ImpureExpansion", FALSE)
                /\ last.exc = "ImpureExpansion"
                /\ last.raised = <<[exc |-> "ImpureExpansion", at |-> 1]>>
                /\ NoProbe(last.sent)
           ELSE ScanOfPrefix(TheWord, i).exc = "none"

\* The word $a= was rejected: the = is not right after the $.
C24_LaterAssignmentRejected ==
    /\ OneWordCompiled
    /\ LastArg = Word(<<"$", "a", "=">>)
    /\ last.exc = "ImpureExpansion"
    /\ NoProbe(last.sent)


(***************************************************************************)
(* C25  The dispatch on node and redirection kinds is total: a node or a   *)
(* redirection of an unknown kind is never returned as if compiled, and    *)
(* the failure raised for it is Unimplemented.                             *)
(***************************************************************************)
NodeKinds ==
    {"Pipe", "Command", "Subshell", "And", "Or", "Semi", "Not", "Redir", "Background",
     "Defun", "For", "While", "If", "Case", "Select", "Arith", "Cond", "ArithFor",
     "Coproc", "Time", "Group"}

RedirKinds == {"File", "Dup", "Heredoc", "SingleArg"}

\* A simple command without assignments is compiled and one of its
\* redirections is of an unknown kind.
UnknownRedirCompiled ==
    /\ last.ast.NodeName = "Command"
    /\ last.ast.assignments = <<>>
    /\ \E i \in 1..Len(last.ast.redir_list) : last.ast.redir_list[i].NodeName \notin RedirKinds

\* The root, or a redirection of the root, is of an unknown kind, and the
\* interpreter answers.
UnknownKindCompiled ==
    /\ Compiled /\ EnvOk /\ last.fault = NoFault
    /\ last.ast.NodeName \notin NodeKinds \/ UnknownRedirCompiled

C25_UnknownKindUnimplemented ==
    UnknownKindCompiled => last.exc = "Unimplemented"

\* The part of C25 that holds: the unknown kind is not passed over.
C25_UnknownKindFails ==
    UnknownKindCompiled => last.exc # "none"

\* A node of an unknown kind was given to expand_command: the builtin
\* NotImplementedError was raised right after the source line.
C25_BuiltinErrorRaised ==
    /\ UnknownKindCompiled
    /\ last.ast = UnknownNode
    /\ last.exc = "NotImplementedError"
    /\ last.exc \notin TypedFailures
    /\ last.raised = <<[exc |-> "NotImplementedError", at |-> 1]>>
    /\ last.out = last.ast

====
